---- MODULE Spec2Model ----
(***************************************************************************)
(* Model of internal/functions/serve/serve.go: the function-serving       *)
(* orchestrator (Run, runServeAll, ParseEnvFile), the container engine it *)
(* drives, the cancellation watcher it spawns and the caller's context.   *)
(***************************************************************************)
EXTENDS Integers, Sequences, FiniteSets, TLC

(***************************************************************************)
(* Bounds of the model.                                                    *)
(***************************************************************************)
\* largest number of entries of an env file
MaxEnvNames == 2
\* largest number of chunks a sandbox writes to its stream
MaxOutput == 1

(***************************************************************************)
(* Names, paths and fixed values.  A name is the sequence of its tokens,   *)
(* a path the sequence of its components, so that prefix tests and joins   *)
(* are computed, not assumed.                                              *)
(***************************************************************************)
Runs == {"A", "B"}

ReservedPrefix == <<"SUPABASE", "_">>

HasPrefix(s, p) == Len(s) >= Len(p) /\ SubSeq(s, 1, Len(p)) = p

\* names an env file may define: two reserved ones, one that only contains
\* the prefix, one that is a proper prefix of the prefix
EnvNamePool ==
    { <<"SUPABASE", "_", "URL">>, <<"SUPABASE", "_", "FOO">>,
      <<"MY", "_", "SUPABASE", "_">>, <<"SUPABASE">> }

NoPath == << >>
relayFuncDir == <<"/", "home", "deno", "functions">>
customDockerImportMapPath == <<"/", "home", "deno", "import_map.json">>
DenoCacheDir == <<"/", "root", ".cache", "deno">>
SupabaseDirPath == <<"supabase">>
FunctionsDir == <<"supabase", "functions">>
FallbackImportMapPath == <<"supabase", "functions", "import_map.json">>
HostCachePath == <<"/", "host", "cache">>
DenoRelayId == "supabase_deno_relay"

EnvFilePath == <<".env">>
OverridePath == <<"custom", "import_map.json">>
DeclaredRelPath == <<"maps", "im.json">>
DeclaredAbsPath == <<"/", "abs", "im.json">>
GoodSlug == "hello"
BadSlug == "1bad"

IsAbs(p) == Len(p) > 0 /\ p[1] = "/"
Join(a, b) == a \o b

LocalFuncDir(slug) == Join(FunctionsDir, <<slug>>)
LocalImportMap(slug) == Join(LocalFuncDir(slug), <<"import_map.json">>)

Paths ==
    { EnvFilePath, OverridePath, Join(SupabaseDirPath, DeclaredRelPath),
      DeclaredAbsPath, FallbackImportMapPath, LocalImportMap(GoodSlug),
      LocalImportMap(BadSlug) }

\* what Stat of a path finds: nothing (ErrNotExist), a regular file, a
\* directory, or an error that is not ErrNotExist
FileStates == {"absent", "file", "dir", "denied"}
StatOk(st) == st \in {"file", "dir"}

(***************************************************************************)
(* Values the orchestrator builds.                                         *)
(***************************************************************************)
Entry(n, v) == [name |-> n, value |-> v]
Arg(o, p) == [opt |-> o, arg |-> p]
Bind(h, t, m) == [host |-> h, target |-> t, mode |-> m]

Err(k) == [kind |-> k, name |-> << >>]
Pending == Err("pending")
Nil == Err("nil")
InvalidEnvName(n) == [kind |-> "InvalidEnvName", name |-> n]

VerifyJwtName == <<"VERIFY", "_", "JWT">>
Cwd == <<"/", "cwd">>
ImportMapFlag == "--import-map="

Range(s) == { s[i] : i \in DOMAIN s }

\* every sequence without repetition of at most n elements of S: the
\* iteration orders of the mappings over S with at most n entries
RECURSIVE Orders(_, _)
Orders(S, n) ==
    IF n = 0 THEN { << >> }
    ELSE LET shorter == Orders(S, n - 1)
             longest == { q \in shorter : Len(q) = n - 1 }
         IN  shorter \cup
             UNION { { Append(q, x) : x \in S \ Range(q) } : q \in longest }

(***************************************************************************)
(* ParseEnvFile.  read is what godotenv.Read returns: an error, or a      *)
(* mapping given as the order in which the range loop visits its names.   *)
(***************************************************************************)
RECURSIVE ScanEnv(_, _, _)
ScanEnv(order, i, env) ==
    IF i > Len(order) THEN [env |-> env, err |-> Nil]
    ELSE IF HasPrefix(order[i], ReservedPrefix)
         THEN [env |-> env, err |-> InvalidEnvName(order[i])]
         ELSE ScanEnv(order, i + 1, Append(env, Entry(order[i], "user")))

\* mutant: the range loop that forgets the reserved-prefix test
ParseEnvFileUnchecked(envFilePath, read) ==
    IF Len(envFilePath) = 0 THEN [env |-> << >>, err |-> Nil]
    ELSE IF ~read.ok THEN [env |-> << >>, err |-> Err("EnvParse")]
    ELSE [env |-> [i \in DOMAIN read.order |-> Entry(read.order[i], "user")],
          err |-> Nil]

ParseEnvFile(envFilePath, read) ==
    IF Len(envFilePath) = 0 THEN [env |-> << >>, err |-> Nil]
    ELSE IF ~read.ok THEN [env |-> << >>, err |-> Err("EnvParse")]
    ELSE ScanEnv(read.order, 1, << >>)

(***************************************************************************)
(* Configuration resolution.                                               *)
(***************************************************************************)
NoFunctions == [s \in {} |-> [ImportMap |-> NoPath, VerifyJWT |-> TRUE]]
Declared(cfg, slug) == slug \in DOMAIN cfg.Functions

ValidateFunctionSlug(slug) == slug = GoodSlug

\* mutant: the fallback is taken whenever Stat succeeds, a directory too
ResolveSingleAnyFallback(r, cfg, files) ==
    IF r.importMapPath # NoPath THEN r.importMapPath
    ELSE IF Declared(cfg, r.slug) /\ cfg.Functions[r.slug].ImportMap # NoPath
         THEN IF IsAbs(cfg.Functions[r.slug].ImportMap)
              THEN cfg.Functions[r.slug].ImportMap
              ELSE Join(SupabaseDirPath, cfg.Functions[r.slug].ImportMap)
    ELSE IF StatOk(files[FallbackImportMapPath])
         THEN FallbackImportMapPath
    ELSE NoPath

\* serve.go 65-75
ResolveSingle(r, cfg, files) ==
    IF r.importMapPath # NoPath THEN r.importMapPath
    ELSE IF Declared(cfg, r.slug) /\ cfg.Functions[r.slug].ImportMap # NoPath
         THEN IF IsAbs(cfg.Functions[r.slug].ImportMap)
              THEN cfg.Functions[r.slug].ImportMap
              ELSE Join(SupabaseDirPath, cfg.Functions[r.slug].ImportMap)
    ELSE IF StatOk(files[FallbackImportMapPath])
            /\ files[FallbackImportMapPath] # "dir"
         THEN FallbackImportMapPath
    ELSE NoPath

\* serve.go 239-243
ResolveAll(r, cfg, files) ==
    IF r.importMapPath # NoPath THEN r.importMapPath
    ELSE IF StatOk(files[FallbackImportMapPath])
            /\ files[FallbackImportMapPath] # "dir"
         THEN FallbackImportMapPath
    ELSE NoPath

\* mutant: any override disables verification, as in serve-all mode
VerifyJWTSingleCollapsed(r, cfg) ==
    IF r.noVerifyJWT = "nil"
    THEN IF Declared(cfg, r.slug) /\ ~cfg.Functions[r.slug].VerifyJWT
         THEN "false" ELSE "true"
    ELSE "false"

\* serve.go 100-107
VerifyJWTSingle(r, cfg) ==
    IF r.noVerifyJWT = "nil"
    THEN IF Declared(cfg, r.slug) /\ ~cfg.Functions[r.slug].VerifyJWT
         THEN "false" ELSE "true"
    ELSE IF r.noVerifyJWT = "true" THEN "false" ELSE "true"

\* mutant: the override is dereferenced, as in single-function mode
VerifyJWTAllDereferenced(r) ==
    IF r.noVerifyJWT = "true" THEN "false" ELSE "true"

\* serve.go 271-274
VerifyJWTAll(r) ==
    IF r.noVerifyJWT # "nil" THEN "false" ELSE "true"

\* mutant: the entries of the env file put in front of the system's
EnvSingleUserFirst(r, cfg, user) ==
    user \o << Entry(<<"JWT", "_", "SECRET">>, "secret"),
               Entry(<<"DENO", "_", "ORIGIN">>, "origin"),
               Entry(VerifyJwtName, VerifyJWTSingle(r, cfg)) >>

\* serve.go 96-108, 124
EnvSingle(r, cfg, user) ==
    << Entry(<<"JWT", "_", "SECRET">>, "secret"),
       Entry(<<"DENO", "_", "ORIGIN">>, "origin"),
       Entry(VerifyJwtName, VerifyJWTSingle(r, cfg)) >> \o user

\* serve.go 264-275, 299
EnvAll(r, user) ==
    << Entry(<<"JWT", "_", "SECRET">>, "secret"),
       Entry(<<"SUPABASE", "_", "URL">>, "kong"),
       Entry(<<"SUPABASE", "_", "ANON", "_", "KEY">>, "anon"),
       Entry(<<"SUPABASE", "_", "SERVICE", "_", "ROLE", "_", "KEY">>, "service"),
       Entry(<<"SUPABASE", "_", "DB", "_", "URL">>, "db"),
       Entry(VerifyJwtName, VerifyJWTAll(r)) >> \o user

\* serve.go 178-183, 201
EnvExec(user) ==
    << Entry(<<"SUPABASE", "_", "URL">>, "kong"),
       Entry(<<"SUPABASE", "_", "ANON", "_", "KEY">>, "anon"),
       Entry(<<"SUPABASE", "_", "SERVICE", "_", "ROLE", "_", "KEY">>, "service"),
       Entry(<<"SUPABASE", "_", "DB", "_", "URL">>, "db") >> \o user

\* mutant: the custom import map is never mounted
BindsSingleFunctionsOnly(imp) ==
    << Bind(Join(Cwd, FunctionsDir), relayFuncDir, "ro,z") >>

\* serve.go 115-119
BindsSingle(imp) ==
    << Bind(Join(Cwd, FunctionsDir), relayFuncDir, "ro,z") >>
    \o (IF imp # NoPath
        THEN << Bind(Join(Cwd, imp), customDockerImportMapPath, "ro,z") >>
        ELSE << >>)

\* serve.go 282-293
BindsAll(imp) ==
    BindsSingle(imp) \o << Bind(HostCachePath, DenoCacheDir, "rw,z") >>

\* serve.go 145-156
LocalImportMapPath(slug, imp) ==
    IF imp # NoPath THEN imp ELSE LocalImportMap(slug)
DockerImportMapPath(slug, imp) ==
    IF imp # NoPath THEN customDockerImportMapPath
    ELSE Join(relayFuncDir, <<slug, "import_map.json">>)
DockerFuncPath(slug) == Join(relayFuncDir, <<slug, "index.ts">>)

\* serve.go 158-168: the command, given what Stat of the local import map finds
DenoCacheCmd(slug, imp, st) ==
    << Arg("deno", NoPath), Arg("cache", NoPath) >>
    \o (IF StatOk(st)
        THEN << Arg(ImportMapFlag, DockerImportMapPath(slug, imp)) >>
        ELSE << >>)
    \o << Arg("", DockerFuncPath(slug)) >>

\* mutant: the run command never gets the import-map flag
DenoRunCmdNoFlag(slug, imp, st) ==
    << Arg("deno", NoPath), Arg("run", NoPath), Arg("--no-check=remote", NoPath),
       Arg("--allow-all", NoPath), Arg("--watch", NoPath),
       Arg("--no-clear-screen", NoPath), Arg("--no-npm", NoPath) >>
    \o << Arg("", DockerFuncPath(slug)) >>

\* serve.go 185-195
DenoRunCmd(slug, imp, st) ==
    << Arg("deno", NoPath), Arg("run", NoPath), Arg("--no-check=remote", NoPath),
       Arg("--allow-all", NoPath), Arg("--watch", NoPath),
       Arg("--no-clear-screen", NoPath), Arg("--no-npm", NoPath) >>
    \o (IF StatOk(st)
        THEN << Arg(ImportMapFlag, DockerImportMapPath(slug, imp)) >>
        ELSE << >>)
    \o << Arg("", DockerFuncPath(slug)) >>

\* serve.go 300
StartCmd ==
    << Arg("start", NoPath), Arg("--dir", relayFuncDir), Arg("-p", NoPath),
       Arg("8081", NoPath) >>

(***************************************************************************)
(* State.                                                                  *)
(***************************************************************************)
VARIABLES
    config,        \* utils.Config as LoadConfigFS leaves it
    fs,            \* what Stat finds at each path
    envFile,       \* what the env file holds
    overlap,       \* whether the callers invoke Run concurrently
    req,           \* the arguments of each invocation of Run
    pc,            \* where the primary flow of each invocation stands
    result,        \* what each invocation returned
    cancelled,     \* whether each invocation's ctx is done
    importMapPath, \* the local importMapPath after resolution
    envRead,       \* the mapping godotenv.Read returned, in iteration order
    userEnv,       \* the local userEnv
    cmds,          \* denoCacheCmd and denoRunCmd as handed to the engine
    removeResult,  \* what the pre-emptive ContainerRemove answered
    watcher,       \* the cancellation goroutine of each invocation
    calls,         \* engine calls issued by each invocation's primary flow
    teardowns,     \* utils.DockerRemove calls issued by each watcher
    servingCancel, \* ctx was cancelled while the primary flow was serving
    containers,    \* the engine's containers, by id
    handed,        \* the specification each invocation handed to DockerStart
    emitted,       \* chunks the sandbox wrote to the attached stream
    written,       \* chunks copied from the stream to the console
    copier,        \* the io.Copy goroutine of serve-all mode
    victims        \* the containers each watcher's Teardown removed

inputs == << config, fs, envFile, overlap, req >>
locals == << importMapPath, envRead, userEnv, cmds, removeResult >>
output == << emitted, written, copier >>
vars == << config, fs, envFile, overlap, req, pc, result, cancelled, importMapPath,
           envRead, userEnv, cmds, removeResult, watcher, calls, teardowns,
           servingCancel, containers, handed, emitted, written, copier,
           victims >>

\* a container id per invocation, and one for an instance left by an
\* earlier session
ContainerIds == Runs \cup {"old"}
CallKinds ==
    {"remove", "start", "execonce", "execcreate", "execattach", "attach",
     "wait"}

NoContainer ==
    [status |-> "none", name |-> "", image |-> "", env |-> << >>,
     binds |-> << >>, cmd |-> << >>]
Container(st, nm, img, env, binds, cmd) ==
    [status |-> st, name |-> nm, image |-> img, env |-> env,
     binds |-> binds, cmd |-> cmd]

NoCmds == [cache |-> << >>, run |-> << >>]
NoRead == [ok |-> FALSE, order |-> << >>]

(***************************************************************************)
(* The container engine.                                                   *)
(***************************************************************************)
Bound(cs, name) ==
    { c \in ContainerIds : cs[c].status # "none" /\ cs[c].name = name }
IsRunning(cs, name) ==
    \E c \in Bound(cs, name) : cs[c].status = "running"

\* ContainerRemove with Force: the container bound to the name is gone
ForceRemove(cs, name) ==
    [c \in ContainerIds |-> IF c \in Bound(cs, name) THEN NoContainer ELSE cs[c]]

\* utils.DockerRemove: force-removes, tolerating absence
DockerRemove(cs, name) == ForceRemove(cs, name)

\* utils.DockerStart: pull, ContainerCreate under the name, ContainerStart.
\* how: "ok", or the step that fails.  A name in use makes the create fail.
DockerStart(cs, id, name, spec, ctxDone, how) ==
    IF ctxDone \/ how \in {"pull", "create"} \/ Bound(cs, name) # {}
    THEN [cs |-> cs, ok |-> FALSE]
    ELSE IF how = "start"
    THEN [cs |-> [cs EXCEPT ![id] = [spec EXCEPT !.status = "created"]],
          ok |-> FALSE]
    ELSE [cs |-> [cs EXCEPT ![id] = [spec EXCEPT !.status = "running"]],
          ok |-> TRUE]

(***************************************************************************)
(* Inputs: the project, the requests and the containers an invocation     *)
(* may find.                                                               *)
(***************************************************************************)
Function(im, vj) == [ImportMap |-> im, VerifyJWT |-> vj]

Configs ==
    { [Functions |-> NoFunctions] } \cup
    { [Functions |-> [s \in {GoodSlug} |-> Function(im, vj)]] :
        im \in {NoPath, DeclaredRelPath, DeclaredAbsPath}, vj \in BOOLEAN }

\* serve-all requests carry no slug
Requests ==
    { q \in [serveAll : BOOLEAN, slug : {"", GoodSlug, BadSlug},
             envFilePath : {NoPath, EnvFilePath},
             noVerifyJWT : {"nil", "true", "false"},
             importMapPath : {NoPath, OverridePath}] :
        q.serveAll <=> q.slug = "" }

\* the requests of two consecutive restarts: a valid function or all
\* functions, no env file, no override
PlainRequests ==
    { q \in Requests : /\ q.slug # BadSlug
                       /\ q.envFilePath = NoPath
                       /\ q.importMapPath = NoPath
                       /\ q.noVerifyJWT = "nil" }

IdleRequest ==
    [serveAll |-> FALSE, slug |-> GoodSlug, envFilePath |-> NoPath,
     noVerifyJWT |-> "nil", importMapPath |-> NoPath]

MkFs(e, o, d, a, f, l) ==
    [p \in Paths |->
        CASE p = EnvFilePath -> e
          [] p = OverridePath -> o
          [] p = Join(SupabaseDirPath, DeclaredRelPath) -> d
          [] p = DeclaredAbsPath -> a
          [] p = FallbackImportMapPath -> f
          [] p = LocalImportMap(GoodSlug) -> l
          [] OTHER -> "absent"]

\* the projects an invocation can tell apart: only a single-function run
\* of a valid slug reads the declared functions
ConfigsFor(q) ==
    IF q.slug = GoodSlug THEN Configs ELSE { [Functions |-> NoFunctions] }

\* the file systems an invocation can tell apart: a path varies only where
\* the request and the project make the code look at it
FileSystems(q, cfg) ==
    LET im == IF Declared(cfg, GoodSlug)
              THEN cfg.Functions[GoodSlug].ImportMap ELSE NoPath
        given == q.importMapPath # NoPath
        opt(used, S) == IF used /\ q.slug # BadSlug THEN S ELSE {"absent"}
    IN  { MkFs(e, o, d, a, f, l) :
            e \in opt(q.envFilePath # NoPath, {"absent", "file"}),
            o \in opt(given, {"absent", "file"}),
            d \in opt(~given /\ im = DeclaredRelPath, {"absent", "file"}),
            a \in opt(~given /\ im = DeclaredAbsPath, {"absent", "file"}),
            f \in opt(TRUE, {"absent", "file", "dir"}),
            l \in opt(~q.serveAll /\ ~given /\ im = NoPath,
                      {"absent", "file", "denied"}) }

\* what an env file may hold: text godotenv cannot parse, or a mapping over
\* at most MaxEnvNames names
NoEnvFile == [ok |-> FALSE, names |-> {}]
EnvFiles ==
    { NoEnvFile } \cup
    { [ok |-> TRUE, names |-> N] :
        N \in { S \in SUBSET EnvNamePool : Cardinality(S) <= MaxEnvNames } }
EnvFilesFor(q, files) ==
    IF q.envFilePath # NoPath /\ files[q.envFilePath] = "file"
    THEN EnvFiles ELSE { NoEnvFile }

OldRelay ==
    Container("running", DenoRelayId, "deno-relay", << >>, << >>, << >>)

InitWith(cfg, files, content, rq, ovl, first, old) ==
    /\ config = cfg
    /\ fs = files
    /\ envFile = content
    /\ overlap = ovl
    /\ req = rq
    /\ pc = [r \in Runs |-> IF r \in first THEN "idle" ELSE "off"]
    /\ result = [r \in Runs |-> Pending]
    /\ cancelled = [r \in Runs |-> FALSE]
    /\ importMapPath = [r \in Runs |-> rq[r].importMapPath]
    /\ envRead = [r \in Runs |-> NoRead]
    /\ userEnv = [r \in Runs |-> << >>]
    /\ cmds = [r \in Runs |-> NoCmds]
    /\ removeResult = [r \in Runs |-> "none"]
    /\ watcher = [r \in Runs |-> "none"]
    /\ calls = [r \in Runs |-> [k \in CallKinds |-> 0]]
    /\ teardowns = [r \in Runs |-> 0]
    /\ servingCancel = [r \in Runs |-> FALSE]
    /\ containers = [c \in ContainerIds |-> IF c = "old" THEN old ELSE NoContainer]
    /\ handed = [r \in Runs |-> NoContainer]
    /\ emitted = [r \in Runs |-> 0]
    /\ written = [r \in Runs |-> 0]
    /\ copier = [r \in Runs |-> "none"]
    /\ victims = [r \in Runs |-> {}]

\* one invocation, with any request, project and file system
Init ==
    \E q \in Requests, old \in {NoContainer, OldRelay} :
        \E cfg \in ConfigsFor(q) : \E files \in FileSystems(q, cfg) :
          \E content \in EnvFilesFor(q, files) :
            InitWith(cfg, files, content,
                     [r \in Runs |-> IF r = "A" THEN q ELSE IdleRequest],
                     FALSE, {"A"}, old)

\* two invocations, one after the other
SeqInit ==
    \E qa \in PlainRequests, qb \in PlainRequests,
       old \in {NoContainer, OldRelay} :
        InitWith([Functions |-> NoFunctions],
                 MkFs("absent", "absent", "absent", "absent", "absent", "absent"),
                 NoEnvFile,
                 [r \in Runs |-> IF r = "A" THEN qa ELSE qb],
                 FALSE, Runs, old)

\* two invocations at the same time, each with a context of its own
ConcInit ==
    \E qa \in PlainRequests, qb \in PlainRequests :
        InitWith([Functions |-> NoFunctions],
                 MkFs("absent", "absent", "absent", "absent", "absent", "absent"),
                 NoEnvFile,
                 [r \in Runs |-> IF r = "A" THEN qa ELSE qb],
                 TRUE, Runs, NoContainer)

(***************************************************************************)
(* The primary flow of Run and runServeAll.                                *)
(***************************************************************************)
Goto(r, l) == pc' = [pc EXCEPT ![r] = l] /\ UNCHANGED result
Return(r, e) ==
    /\ pc' = [pc EXCEPT ![r] = "done"]
    /\ result' = [result EXCEPT ![r] = e]

Single(r) == ~req[r].serveAll
All(r) == req[r].serveAll

\* the caller invokes Run; serve.go 44-47 dispatches on serveAll
StartRun(r) ==
    /\ pc[r] = "idle"
    /\ overlap \/ r = "A" \/ pc["A"] = "done"
    /\ Goto(r, "sanity")
    /\ UNCHANGED << inputs, locals, cancelled, watcher, calls, teardowns,
                    servingCancel, output, handed, victims, containers >>

\* serve.go 51-64 (checkSlug) and 228-238: LoadConfigFS,
\* AssertSupabaseDbIsRunning, ValidateFunctionSlug, Stat of the env file
Sanity(r, checkSlug) ==
    \E loaded \in BOOLEAN, dbUp \in BOOLEAN :
        IF ~loaded THEN Return(r, Err("LoadConfig"))
        ELSE IF ~dbUp THEN Return(r, Err("DbNotRunning"))
        ELSE IF checkSlug /\ ~ValidateFunctionSlug(req[r].slug)
             THEN Return(r, Err("InvalidSlug"))
        ELSE IF req[r].envFilePath # NoPath /\ ~StatOk(fs[req[r].envFilePath])
             THEN Return(r, Err("ReadEnvFile"))
        ELSE Goto(r, "resolve")

SanityChecks(r) ==
    /\ pc[r] = "sanity" /\ Single(r)
    /\ Sanity(r, TRUE)
    /\ UNCHANGED << inputs, locals, cancelled, watcher, calls, teardowns,
                    servingCancel, output, handed, victims, containers >>

SanityChecksAll(r) ==
    /\ pc[r] = "sanity" /\ All(r)
    /\ Sanity(r, FALSE)
    /\ UNCHANGED << inputs, locals, cancelled, watcher, calls, teardowns,
                    servingCancel, output, handed, victims, containers >>

\* serve.go 65-75
ResolveImportMap(r) ==
    /\ pc[r] = "resolve" /\ Single(r)
    /\ importMapPath' =
           [importMapPath EXCEPT ![r] = ResolveSingle(req[r], config, fs)]
    /\ Goto(r, "validate")
    /\ UNCHANGED << inputs, envRead, userEnv, cmds, removeResult, cancelled,
                    watcher, calls, teardowns, servingCancel, output, handed, victims, containers >>

\* serve.go 239-243
ResolveImportMapAll(r) ==
    /\ pc[r] = "resolve" /\ All(r)
    /\ importMapPath' =
           [importMapPath EXCEPT ![r] = ResolveAll(req[r], config, fs)]
    /\ Goto(r, "validate")
    /\ UNCHANGED << inputs, envRead, userEnv, cmds, removeResult, cancelled,
                    watcher, calls, teardowns, servingCancel, output, handed, victims, containers >>

\* serve.go 76-80 and 244-248
ValidateImportMap(r) ==
    /\ pc[r] = "validate"
    /\ IF importMapPath[r] # NoPath /\ ~StatOk(fs[importMapPath[r]])
       THEN Return(r, Err("ReadImportMap"))
       ELSE Goto(r, "parse")
    /\ UNCHANGED << inputs, locals, cancelled, watcher, calls, teardowns,
                    servingCancel, output, handed, victims, containers >>

\* what godotenv.Read may return: an error, or the mapping, which the range
\* loop of ParseEnvFile visits in any order
ReadResults(content) ==
    IF ~content.ok THEN { NoRead }
    ELSE { [ok |-> TRUE, order |-> o] :
             o \in { q \in Orders(content.names, Cardinality(content.names)) :
                        Len(q) = Cardinality(content.names) } }

\* serve.go 84-87 and 252-255
ParseEnv(r) ==
    /\ pc[r] = "parse"
    /\ \E read \in IF req[r].envFilePath = NoPath THEN { NoRead }
                   ELSE ReadResults(envFile) :
         LET parsed == ParseEnvFile(req[r].envFilePath, read)
         IN  /\ envRead' = [envRead EXCEPT ![r] = read]
             /\ IF parsed.err # Nil
                THEN Return(r, parsed.err) /\ UNCHANGED userEnv
                ELSE /\ userEnv' = [userEnv EXCEPT ![r] = parsed.env]
                     /\ Goto(r, "remove")
    /\ UNCHANGED << inputs, importMapPath, cmds, removeResult, cancelled,
                    watcher, calls, teardowns, servingCancel, output, handed, victims, containers >>

Call(r, k) == calls' = [calls EXCEPT ![r][k] = @ + 1]

\* mutant: the pre-emptive removal is left out
RemovePreviousSkipped(r) ==
    /\ pc[r] = "remove"
    /\ Goto(r, "start")
    /\ UNCHANGED << inputs, locals, cancelled, watcher, calls, teardowns,
                    servingCancel, output, handed, victims, containers >>

\* mutant: a removal that finds no container fails the run
RemovePreviousStrict(r) ==
    /\ pc[r] = "remove"
    /\ Call(r, "remove")
    /\ \E answered \in BOOLEAN :
         IF answered /\ ~cancelled[r]
         THEN /\ containers' = ForceRemove(containers, DenoRelayId)
              /\ IF Bound(containers, DenoRelayId) # {}
                 THEN /\ removeResult' = [removeResult EXCEPT ![r] = "removed"]
                      /\ Goto(r, "start")
                 ELSE /\ removeResult' = [removeResult EXCEPT ![r] = "notfound"]
                      /\ Return(r, Err("ContainerRemove"))
         ELSE /\ removeResult' = [removeResult EXCEPT ![r] = "error"]
              /\ UNCHANGED containers
              /\ Goto(r, "start")
    /\ UNCHANGED << inputs, importMapPath, envRead, userEnv, cmds, cancelled,
                    watcher, teardowns, servingCancel, output, handed, victims >>

\* serve.go 91-94 and 259-262: the error of ContainerRemove is dropped
RemovePrevious(r) ==
    /\ pc[r] = "remove"
    /\ Call(r, "remove")
    /\ \E answered \in BOOLEAN :
         IF answered /\ ~cancelled[r]
         THEN /\ containers' = ForceRemove(containers, DenoRelayId)
              /\ removeResult' =
                     [removeResult EXCEPT ![r] =
                         IF Bound(containers, DenoRelayId) # {}
                         THEN "removed" ELSE "notfound"]
         ELSE /\ removeResult' = [removeResult EXCEPT ![r] = "error"]
              /\ UNCHANGED containers
    /\ Goto(r, "start")
    /\ UNCHANGED << inputs, importMapPath, envRead, userEnv, cmds, cancelled,
                    watcher, teardowns, servingCancel, output, handed, victims >>

StartOutcomes == {"ok", "getwd", "pull", "create", "start"}

\* mutant: a name of its own for every invocation
SandboxNamePerRun(r) == r

\* the name the sandbox is created under: serve.go 131 and 310
SandboxName(r) == DenoRelayId

\* serve.go 96-134 (single) and 264-314 (all): the container specification,
\* os.Getwd, utils.GetDenoCachePath and utils.DockerStart
Start(r, spec) ==
    \E how \in StartOutcomes :
        IF how = "getwd"
        THEN /\ Return(r, Err("Getwd"))
             /\ UNCHANGED << calls, containers, handed >>
        ELSE LET res == DockerStart(containers, r, SandboxName(r), spec,
                                    cancelled[r], how)
             IN  /\ Call(r, "start")
                 /\ handed' = [handed EXCEPT ![r] = spec]
                 /\ containers' = res.cs
                 /\ IF res.ok THEN Goto(r, "started")
                    ELSE Return(r, Err("DockerStart"))

StartSandbox(r) ==
    /\ pc[r] = "start" /\ Single(r)
    /\ Start(r, Container("new", SandboxName(r), "deno-relay",
                          EnvSingle(req[r], config, userEnv[r]),
                          BindsSingle(importMapPath[r]), << >>))
    /\ UNCHANGED << inputs, locals, cancelled, watcher, teardowns,
                    servingCancel, output, victims >>

StartSandboxAll(r) ==
    /\ pc[r] = "start" /\ All(r)
    /\ Start(r, Container("new", SandboxName(r), "edge-runtime",
                          EnvAll(req[r], userEnv[r]),
                          BindsAll(importMapPath[r]), StartCmd))
    /\ UNCHANGED << inputs, locals, cancelled, watcher, teardowns,
                    servingCancel, output, victims >>

\* serve.go 136-141: go func() { <-ctx.Done(); ... }()
SpawnWatcher(r) ==
    /\ pc[r] = "started" /\ Single(r)
    /\ watcher' = [watcher EXCEPT ![r] = "waiting"]
    /\ Goto(r, "cache")
    /\ UNCHANGED << inputs, locals, cancelled, calls, teardowns,
                    servingCancel, output, handed, victims, containers >>

\* mutant: a failed cache exec is issued a second time before Run gives up
CacheFunctionRetried(r) ==
    /\ pc[r] = "cache"
    /\ LET st == fs[LocalImportMapPath(req[r].slug, importMapPath[r])]
       IN  IF ~StatOk(st) /\ st # "absent"
           THEN /\ Return(r, Err("CheckImportMap"))
                /\ UNCHANGED << cmds, calls >>
           ELSE /\ cmds' = [cmds EXCEPT ![r].cache =
                               DenoCacheCmd(req[r].slug, importMapPath[r], st)]
                /\ \E exited0 \in BOOLEAN :
                     IF exited0 /\ ~cancelled[r]
                        /\ IsRunning(containers, DenoRelayId)
                     THEN Call(r, "execonce") /\ Goto(r, "exec")
                     ELSE /\ calls' = [calls EXCEPT ![r]["execonce"] = @ + 2]
                          /\ Return(r, Err("ExecOnce"))
    /\ UNCHANGED << inputs, importMapPath, envRead, userEnv, removeResult,
                    cancelled, watcher, teardowns, servingCancel, output,
                    handed, victims, containers >>

\* mutant: a failed cache exec makes Run remove the sandbox it started
CacheFunctionCleaningUp(r) ==
    /\ pc[r] = "cache"
    /\ LET st == fs[LocalImportMapPath(req[r].slug, importMapPath[r])]
       IN  IF ~StatOk(st) /\ st # "absent"
           THEN /\ Return(r, Err("CheckImportMap"))
                /\ UNCHANGED << cmds, calls, containers >>
           ELSE /\ cmds' = [cmds EXCEPT ![r].cache =
                               DenoCacheCmd(req[r].slug, importMapPath[r], st)]
                /\ Call(r, "execonce")
                /\ \E exited0 \in BOOLEAN :
                     IF exited0 /\ ~cancelled[r]
                        /\ IsRunning(containers, DenoRelayId)
                     THEN Goto(r, "exec") /\ UNCHANGED containers
                     ELSE /\ Return(r, Err("ExecOnce"))
                          /\ containers' = ForceRemove(containers, DenoRelayId)
    /\ UNCHANGED << inputs, importMapPath, envRead, userEnv, removeResult,
                    cancelled, watcher, teardowns, servingCancel, output,
                    handed, victims >>

\* serve.go 145-173: denoCacheCmd and utils.DockerExecOnce
CacheFunction(r) ==
    /\ pc[r] = "cache"
    /\ LET st == fs[LocalImportMapPath(req[r].slug, importMapPath[r])]
       IN  IF ~StatOk(st) /\ st # "absent"
           THEN /\ Return(r, Err("CheckImportMap"))
                /\ UNCHANGED << cmds, calls >>
           ELSE /\ cmds' = [cmds EXCEPT ![r].cache =
                               DenoCacheCmd(req[r].slug, importMapPath[r], st)]
                /\ Call(r, "execonce")
                /\ \E exited0 \in BOOLEAN :
                     IF exited0 /\ ~cancelled[r]
                        /\ IsRunning(containers, DenoRelayId)
                     THEN Goto(r, "exec")
                     ELSE Return(r, Err("ExecOnce"))
    /\ UNCHANGED << inputs, importMapPath, envRead, userEnv, removeResult,
                    cancelled, watcher, teardowns, servingCancel, output, handed, victims, containers >>

\* serve.go 176-214: denoRunCmd, ContainerExecCreate, ContainerExecAttach
ExecServe(r) ==
    /\ pc[r] = "exec"
    /\ LET st == fs[LocalImportMapPath(req[r].slug, importMapPath[r])]
       IN  IF ~StatOk(st) /\ st # "absent"
           THEN /\ Return(r, Err("CheckIndex"))
                /\ UNCHANGED << cmds, calls >>
           ELSE /\ cmds' = [cmds EXCEPT ![r].run =
                               DenoRunCmd(req[r].slug, importMapPath[r], st)]
                /\ \E how \in {"ok", "create", "attach"} :
                     IF how = "create" \/ cancelled[r]
                        \/ ~IsRunning(containers, DenoRelayId)
                     THEN /\ Call(r, "execcreate")
                          /\ Return(r, Err("ExecCreate"))
                     ELSE /\ calls' = [calls EXCEPT ![r]["execcreate"] = @ + 1,
                                                    ![r]["execattach"] = @ + 1]
                          /\ IF how = "attach"
                             THEN Return(r, Err("ExecAttach"))
                             ELSE Goto(r, "drain")
    /\ UNCHANGED << inputs, importMapPath, envRead, userEnv, removeResult,
                    cancelled, watcher, teardowns, servingCancel, output, handed, victims, containers >>

\* the process in the sandbox writes a chunk to the stream the invocation is
\* attached to: the exec of serve.go 197-214, the container of serve.go 319-328
Emit(r) ==
    /\ emitted[r] < MaxOutput
    /\ IF Single(r)
       THEN pc[r] = "drain" /\ IsRunning(containers, DenoRelayId)
       ELSE copier[r] = "copying" /\ containers[r].status = "running"
    /\ emitted' = [emitted EXCEPT ![r] = @ + 1]
    /\ UNCHANGED << inputs, locals, pc, result, cancelled, watcher, calls,
                    teardowns, servingCancel, containers, written, copier,
                    handed, victims >>

\* serve.go 216: one round of the loop of stdcopy.StdCopy, which the primary
\* flow runs itself
CopyOutput(r) ==
    /\ pc[r] = "drain"
    /\ written[r] < emitted[r]
    /\ written' = [written EXCEPT ![r] = @ + 1]
    /\ UNCHANGED << inputs, locals, pc, result, cancelled, watcher, calls,
                    teardowns, servingCancel, containers, emitted, copier,
                    handed, victims >>

\* serve.go 216-222: stdcopy.StdCopy returns nil at the end of the stream,
\* having copied all of it, or the error of a read or a write
DrainStream(r) ==
    /\ pc[r] = "drain"
    /\ \E clean \in BOOLEAN :
         IF clean
         THEN written[r] = emitted[r] /\ Return(r, Nil)
         ELSE Return(r, Err("StdCopy"))
    /\ UNCHANGED << inputs, locals, cancelled, watcher, calls, teardowns,
                    servingCancel, output, handed, victims, containers >>

\* serve.go 316-332: ContainerAttach on the id DockerStart returned
AttachContainer(r) ==
    /\ pc[r] = "started" /\ All(r)
    /\ Call(r, "attach")
    /\ \E attached \in BOOLEAN :
         IF attached /\ ~cancelled[r] /\ containers[r].status # "none"
         THEN /\ copier' = [copier EXCEPT ![r] = "copying"]
              /\ Goto(r, "wait")
         ELSE /\ UNCHANGED copier
              /\ Return(r, Err("Attach"))
    /\ UNCHANGED << inputs, locals, cancelled, watcher, teardowns,
                    servingCancel, emitted, written, handed, victims,
                    containers >>

\* serve.go 330-332: one round of the loop of io.Copy in its goroutine, which
\* nothing waits for
CopyOutputAll(r) ==
    /\ copier[r] = "copying"
    /\ written[r] < emitted[r]
    /\ written' = [written EXCEPT ![r] = @ + 1]
    /\ UNCHANGED << inputs, locals, pc, result, cancelled, watcher, calls,
                    teardowns, servingCancel, containers, emitted, copier,
                    handed, victims >>

\* serve.go 330-332: io.Copy returns at the end of the stream, and the
\* goroutine with it
CopierEnds(r) ==
    /\ copier[r] = "copying"
    /\ containers[r].status # "running"
    /\ written[r] = emitted[r]
    /\ copier' = [copier EXCEPT ![r] = "finished"]
    /\ UNCHANGED << inputs, locals, pc, result, cancelled, watcher, calls,
                    teardowns, servingCancel, containers, emitted, written,
                    handed, victims >>

\* serve.go 334-341: the select on errCh and statusCh of ContainerWait
WaitContainer(r) ==
    /\ pc[r] = "wait"
    /\ Call(r, "wait")
    /\ \E got \in {"errCh", "statusCh"} :
         IF got = "errCh"
         THEN Return(r, Err("Wait"))
         ELSE /\ containers[r].status # "running"
              /\ Goto(r, "waited")
    /\ UNCHANGED << inputs, locals, cancelled, watcher, teardowns,
                    servingCancel, output, handed, victims, containers >>

\* serve.go 343-352: the watcher is spawned after the wait, then Run returns
SpawnWatcherAll(r) ==
    /\ pc[r] = "waited"
    /\ watcher' = [watcher EXCEPT ![r] = "waiting"]
    /\ Return(r, Nil)
    /\ UNCHANGED << inputs, locals, cancelled, calls, teardowns,
                    servingCancel, output, handed, victims, containers >>

(***************************************************************************)
(* The cancellation watcher, the caller and the sandbox.                   *)
(***************************************************************************)
\* serve.go 137-140 and 344-347
WatcherTeardown(r) ==
    /\ watcher[r] = "waiting"
    /\ cancelled[r]
    /\ containers' = DockerRemove(containers, DenoRelayId)
    /\ teardowns' = [teardowns EXCEPT ![r] = @ + 1]
    /\ watcher' = [watcher EXCEPT ![r] = "finished"]
    /\ victims' = [victims EXCEPT ![r] = Bound(containers, DenoRelayId)]
    /\ UNCHANGED << inputs, locals, pc, result, cancelled, calls,
                    servingCancel, output, handed >>

\* the primary flow is blocked serving: in StdCopy, or in the select on the
\* channels of ContainerWait
Serving(r) == pc[r] \in {"drain", "wait"}

\* the steps before the first engine call do not look at ctx
BeforeEngine == {"idle", "off", "sanity", "resolve", "validate", "parse"}

\* the caller cancels the context of an invocation, at any moment from which
\* a step of the invocation or its watcher can still observe it
Cancel(r) ==
    /\ pc[r] \notin BeforeEngine
    /\ pc[r] # "done" \/ watcher[r] = "waiting"
    /\ ~cancelled[r]
    /\ cancelled' = [cancelled EXCEPT ![r] = TRUE]
    /\ servingCancel' = [servingCancel EXCEPT ![r] = Serving(r)]
    /\ UNCHANGED << inputs, locals, pc, result, watcher, calls, teardowns,
                    containers, output, handed, victims >>

\* the process in a sandbox ends by itself
ContainerExit(c) ==
    /\ containers[c].status = "running"
    /\ containers' = [containers EXCEPT ![c].status = "exited"]
    /\ UNCHANGED << inputs, locals, pc, result, cancelled, watcher, calls,
                    teardowns, servingCancel, output, handed, victims >>

Next ==
    \/ \E r \in Runs :
         \/ StartRun(r)
         \/ SanityChecks(r)
         \/ SanityChecksAll(r)
         \/ ResolveImportMap(r)
         \/ ResolveImportMapAll(r)
         \/ ValidateImportMap(r)
         \/ ParseEnv(r)
         \/ RemovePrevious(r)
         \/ StartSandbox(r)
         \/ StartSandboxAll(r)
         \/ SpawnWatcher(r)
         \/ CacheFunction(r)
         \/ ExecServe(r)
         \/ Emit(r)
         \/ CopyOutput(r)
         \/ DrainStream(r)
         \/ AttachContainer(r)
         \/ CopyOutputAll(r)
         \/ CopierEnds(r)
         \/ WaitContainer(r)
         \/ SpawnWatcherAll(r)
         \/ WatcherTeardown(r)
         \/ Cancel(r)
    \/ \E c \in ContainerIds : ContainerExit(c)

Spec == Init /\ [][Next]_vars
SeqSpec == SeqInit /\ [][Next]_vars
ConcSpec == ConcInit /\ [][Next]_vars

(***************************************************************************)
(* Properties.                                                             *)
(***************************************************************************)
Invoked(r) == pc[r] \notin {"idle", "off"}
NoCalls(r) == \A k \in CallKinds : calls[r][k] = 0
Reserved(N) == { n \in N : HasPrefix(n, ReservedPrefix) }

\* the env file of the invocation parses to a mapping with a reserved name
ReservedMapping(r) ==
    /\ Invoked(r)
    /\ req[r].envFilePath # NoPath
    /\ fs[req[r].envFilePath] = "file"
    /\ envFile.ok
    /\ Reserved(envFile.names) # {}

\* the errors of the checks that run before ParseEnvFile
EarlierErrors ==
    {"LoadConfig", "DbNotRunning", "InvalidSlug", "ReadEnvFile", "ReadImportMap"}

\* the sandbox of the invocation was started: DockerStart returned no error
Started(r) == watcher[r] # "none" \/ calls[r]["attach"] > 0 \/ pc[r] = "started"

Live == { c \in ContainerIds : containers[c].status # "none" }

\* C1, as stated: an invocation whose env file maps a name that starts with
\* SUPABASE_ issues no engine call at any point, and what it returns is the
\* error naming one of the offending names.
C1_ReservedNameIsNamed ==
    \A r \in Runs :
        ReservedMapping(r) =>
            /\ NoCalls(r)
            /\ pc[r] = "done" =>
                   /\ result[r].kind = "InvalidEnvName"
                   /\ result[r].name \in Reserved(envFile.names)

\* C1, amended: such an invocation issues no engine call (remove, start,
\* exec, attach, wait) at any point, never gets past ParseEnvFile, spawns no
\* watcher, and returns an error: the error of an earlier sanity check, or
\* else the error naming one of the offending names, whatever the order in
\* which the mapping is visited.
C1_ReservedNameFailsBeforeEngine ==
    \A r \in Runs :
        ReservedMapping(r) =>
            /\ NoCalls(r)
            /\ watcher[r] = "none" /\ teardowns[r] = 0
            /\ containers[r].status = "none"
            /\ pc[r] \in {"sanity", "resolve", "validate", "parse", "done"}
            /\ pc[r] = "done" =>
                   \/ result[r].kind \in EarlierErrors
                   \/ /\ result[r].kind = "InvalidEnvName"
                      /\ result[r].name \in Reserved(envFile.names)

\* C1 witness: of two reserved names, the one visited first is reported
C1_Witness ==
    \E r \in Runs :
        /\ ReservedMapping(r)
        /\ Cardinality(Reserved(envFile.names)) = 2
        /\ pc[r] = "done"
        /\ result[r] = InvalidEnvName(<<"SUPABASE", "_", "FOO">>)
        /\ envRead[r].order[1] = <<"SUPABASE", "_", "FOO">>
        /\ NoCalls(r)

\* C2: an invocation whose ctx was cancelled while it was serving has, once
\* it has returned and no watcher of it is still about to act, issued
\* Teardown exactly once; and never more than once.
C2_TeardownExactlyOnce ==
    \A r \in Runs :
        /\ teardowns[r] <= 1
        /\ (servingCancel[r] /\ pc[r] = "done" /\ watcher[r] # "waiting")
               => teardowns[r] = 1

\* C3: once an invocation that started the sandbox has returned, after a
\* normal end of the serve or after a cancellation while serving, and its
\* watcher is not about to tear down, no container is bound to the fixed
\* identifier.
C3_EndsAbsent ==
    \A r \in Runs :
        ( /\ Started(r) /\ pc[r] = "done"
          /\ result[r] = Nil \/ servingCancel[r]
          /\ ~(watcher[r] = "waiting" /\ cancelled[r]) )
            => Bound(containers, DenoRelayId) = {}

\* C4: across two consecutive invocations, every container the engine holds
\* is bound to the fixed identifier and there is at most one of them.
C4_AtMostOneLive ==
    /\ \A c \in Live : containers[c].name = DenoRelayId
    /\ Cardinality(Live) <= 1

\* C4 witness: the second invocation's sandbox runs, after the first
\* invocation's sandbox ran and was replaced
C4_Witness ==
    /\ Started("A") /\ pc["A"] = "done" /\ result["A"] = Nil
    /\ removeResult["B"] = "removed"
    /\ containers["B"].status = "running"
    /\ containers["A"].status = "none"

ConfigErrors ==
    {"InvalidSlug", "ReadEnvFile", "EnvParse", "ReadImportMap",
     "CheckImportMap", "CheckIndex"}

\* C6: an invocation that returned a configuration error has issued no
\* engine call.
C6_ConfigErrorsBeforeMutation ==
    \A r \in Runs :
        (pc[r] = "done" /\ result[r].kind \in ConfigErrors) => NoCalls(r)

\* the import-map resolution of the invocation has run
Resolved(r) ==
    /\ pc[r] \notin {"idle", "off", "sanity", "resolve"}
    /\ result[r].kind \notin {"LoadConfig", "DbNotRunning", "InvalidSlug", "ReadEnvFile"}

DeclaredImportMap(r) ==
    IF Declared(config, req[r].slug)
    THEN config.Functions[req[r].slug].ImportMap ELSE NoPath

\* C7: the resolved import map is the override if given; else, in
\* single-function mode, the declared map (absolute as is, relative under
\* the project root); else the fallback if it is a regular file; else none.
\* The fallback is never the result when it is missing or a directory.
C7_ImportMapPrecedence ==
    \A r \in Runs :
        Resolved(r) =>
            /\ req[r].importMapPath # NoPath =>
                   importMapPath[r] = req[r].importMapPath
            /\ (req[r].importMapPath = NoPath /\ Single(r)
                    /\ DeclaredImportMap(r) # NoPath) =>
                   importMapPath[r] =
                       IF DeclaredImportMap(r)[1] = "/"
                       THEN DeclaredImportMap(r)
                       ELSE <<"supabase">> \o DeclaredImportMap(r)
            /\ (req[r].importMapPath = NoPath
                    /\ (All(r) \/ DeclaredImportMap(r) = NoPath)) =>
                   importMapPath[r] =
                       IF fs[FallbackImportMapPath] = "file"
                       THEN FallbackImportMapPath ELSE NoPath
            /\ fs[FallbackImportMapPath] \in {"absent", "dir"} =>
                   importMapPath[r] # FallbackImportMapPath

\* C7 witness: a single-function run without override or declared map, whose
\* fallback path is a directory, resolves to none
C7_Witness ==
    \E r \in Runs :
        /\ Resolved(r) /\ Single(r)
        /\ req[r].importMapPath = NoPath
        /\ Declared(config, req[r].slug) /\ DeclaredImportMap(r) = NoPath
        /\ fs[FallbackImportMapPath] = "dir"
        /\ importMapPath[r] = NoPath
        /\ pc[r] = "remove"

HasFlag(cmd) == \E i \in DOMAIN cmd : cmd[i].opt = ImportMapFlag
FlagArgs(cmd) == { cmd[i].arg : i \in { j \in DOMAIN cmd : cmd[j].opt = ImportMapFlag } }

\* the commands an invocation has sent to the sandbox
SentCommands(r) ==
    { c \in {cmds[r].cache, cmds[r].run} : c # << >> } \cup
    (IF All(r) /\ Started(r) THEN { StartCmd } ELSE {})

VerifyJwtValues(env) ==
    { env[i].value : i \in { j \in DOMAIN env : env[j].name = VerifyJwtName } }

\* C9: the sandbox of a single-function run is started with VERIFY_JWT equal
\* to the negation of the override when it is set, to the function's
\* declared VerifyJWT when it is unset, and to true when the override is
\* unset and the function is not declared.
C9_VerifyJwtSingle ==
    \A r \in Runs :
        (Single(r) /\ containers[r].status # "none") =>
            VerifyJwtValues(containers[r].env) =
                { CASE req[r].noVerifyJWT = "true" -> "false"
                    [] req[r].noVerifyJWT = "false" -> "true"
                    [] OTHER ->
                        IF ~Declared(config, req[r].slug) THEN "true"
                        ELSE IF config.Functions[req[r].slug].VerifyJWT
                        THEN "true" ELSE "false" }

\* C9 witness: the override asks to verify, the function declares not to,
\* and the sandbox runs with VERIFY_JWT=true
C9_Witness ==
    \E r \in Runs :
        /\ Single(r) /\ containers[r].status = "running"
        /\ req[r].noVerifyJWT = "false"
        /\ Declared(config, req[r].slug)
        /\ ~config.Functions[req[r].slug].VerifyJWT
        /\ VerifyJwtValues(containers[r].env) = {"true"}

\* C10: the sandbox of a serve-all run is started with VERIFY_JWT=false
\* exactly when the override is set to the value that disables
\* verification.
C10_VerifyJwtAll ==
    \A r \in Runs :
        (All(r) /\ containers[r].status # "none") =>
            VerifyJwtValues(containers[r].env) =
                { IF req[r].noVerifyJWT = "true" THEN "false" ELSE "true" }

\* C11: in single-function mode the cache exec is issued at most once in a
\* run; when it fails, Run returns that error having issued it exactly once,
\* and the serve exec of that run is neither built, created nor attached.
C11_CacheFailureAborts ==
    \A r \in Runs :
        /\ calls[r]["execonce"] <= 1
        /\ result[r] = Err("ExecOnce") =>
               /\ Single(r) /\ pc[r] = "done"
               /\ calls[r]["execonce"] = 1
               /\ calls[r]["execcreate"] = 0
               /\ calls[r]["execattach"] = 0
               /\ cmds[r].run = << >>
               /\ emitted[r] = 0

\* the cache exec failed in a sandbox that is still running, with no
\* cancellation: the failure is the exec's own
C11_Witness ==
    \E r \in Runs :
        /\ result[r] = Err("ExecOnce")
        /\ ~cancelled[r]
        /\ IsRunning(containers, DenoRelayId)
        /\ cmds[r].cache # << >>

\* C12, as stated: when Run returns success, in either mode, every chunk the
\* sandbox wrote to the attached stream has been written to the console.
C12_OutputDeliveredAtReturn ==
    \A r \in Runs :
        (pc[r] = "done" /\ result[r] = Nil) => written[r] = emitted[r]

\* C13: removing the container of the fixed name is idempotent.  A removal
\* the engine answers, pre-emptive or by a watcher, leaves no container under
\* the name; one that finds none changes nothing in the engine; neither
\* raises an error to the run, and after the pre-emptive one the run goes on
\* to start the sandbox.
C13_RemovalIdempotent ==
    [][\A r \in Runs :
          /\ (removeResult[r] = "none" /\ removeResult'[r] # "none") =>
                /\ pc'[r] = "start" /\ result'[r] = Pending
                /\ removeResult'[r] # "error" =>
                       Bound(containers', DenoRelayId) = {}
                /\ Bound(containers, DenoRelayId) = {} =>
                       containers' = containers
          /\ teardowns'[r] > teardowns[r] =>
                /\ Bound(containers', DenoRelayId) = {}
                /\ pc' = pc /\ result' = result
                /\ Bound(containers, DenoRelayId) = {} =>
                       containers' = containers
      ]_vars

\* the teardown of the first invocation and the pre-emptive removal of the
\* second came one after the other, the second found nothing, and the
\* second invocation went on to start its sandbox
C13_Witness ==
    /\ teardowns["A"] = 1
    /\ removeResult["B"] = "notfound"
    /\ calls["B"]["start"] = 1
    /\ containers["B"].status = "running"

\* the entries of an env list that come from the env file
UserEntries(env) == { i \in DOMAIN env : env[i].value = "user" }

\* C14: in the env list handed to the engine at sandbox start, in either
\* mode, VERIFY_JWT is there once, every entry up to it is the system's,
\* every entry after it is the user's, and no user entry has a name that
\* starts with SUPABASE_; the user entries are those of the env file.
C14_SystemEntriesFirst ==
    \A r \in Runs :
        handed[r] # NoContainer =>
            LET env == handed[r].env
            IN  /\ \E k \in DOMAIN env :
                       /\ env[k].name = VerifyJwtName
                       /\ UserEntries(env) = { i \in DOMAIN env : i > k }
                /\ Cardinality({ i \in DOMAIN env :
                                    env[i].name = VerifyJwtName }) = 1
                /\ \A i \in UserEntries(env) :
                       ~HasPrefix(env[i].name, ReservedPrefix)
                /\ { env[i].name : i \in UserEntries(env) } =
                       IF req[r].envFilePath = NoPath THEN {}
                       ELSE envFile.names

\* a single-function sandbox runs with the entries of an env file after the
\* system's
C14_Witness ==
    \E r \in Runs :
        /\ Single(r)
        /\ containers[r].status = "running"
        /\ UserEntries(handed[r].env) # {}
        /\ handed[r].env = containers[r].env

\* C15, as stated: in either mode the watcher is spawned right after the
\* sandbox start succeeds, before the primary flow enters an exec, an attach
\* or a wait, so a watcher exists whenever the primary flow is past the start
\* and, in particular, whenever it is blocked serving.
C15_WatcherWhileServing ==
    \A r \in Runs :
        (pc[r] \in {"cache", "exec", "waited"} \/ Serving(r)) =>
            watcher[r] # "none"

\* C16, as stated: a run that ends with a fatal error has written no
\* function-serving output to the console.
C16_NoOutputOnFatalError ==
    \A r \in Runs :
        (pc[r] = "done" /\ result[r] # Nil) => written[r] = 0

\* a container is as it was, or has exited by itself
AsItWas(c) ==
    \/ containers'[c] = containers[c]
    \/ /\ containers[c].status = "running"
       /\ containers'[c] = [containers[c] EXCEPT !.status = "exited"]

\* C16, amended: a run that ends with a fatal error other than that of the
\* stream copy (single-function mode) or of the container wait (serve-all
\* mode) has written no function-serving output to the console.  The primary
\* flow issues the removal and the start at most once each, the removal
\* first, and once it has issued the start no container changes, except by
\* exiting, until the cancellation signal of the run fires.
C16_FatalErrorLeavesSandbox ==
    [][\A r \in Runs :
          /\ (/\ pc'[r] = "done" /\ result'[r] # Nil
              /\ result'[r].kind \notin {"StdCopy", "Wait"}) =>
                 written'[r] = 0 /\ emitted'[r] = 0
          /\ calls'[r]["start"] # calls[r]["start"] =>
                 calls[r]["start"] = 0
          /\ calls'[r]["remove"] # calls[r]["remove"] =>
                 calls[r]["remove"] = 0 /\ calls[r]["start"] = 0
          /\ (calls[r]["start"] > 0 /\ ~cancelled'[r]) =>
                 \A c \in ContainerIds : AsItWas(c)
      ]_vars

\* a run ended with the error of an exec or an attach, uncancelled: its
\* sandbox is still running, and nothing was written
C16_Witness ==
    \E r \in Runs :
        /\ pc[r] = "done"
        /\ result[r].kind \in {"ExecCreate", "ExecAttach", "Attach"}
        /\ ~cancelled[r]
        /\ containers[r].status = "running"
        /\ written[r] = 0

\* C17: the sandbox of serve-all mode is started with VERIFY_JWT=false
\* exactly when the override is non-nil, whichever boolean it points to, and
\* with VERIFY_JWT=true exactly when the override is nil.
C17_VerifyJwtAllByPresence ==
    \A r \in Runs :
        (All(r) /\ handed[r] # NoContainer) =>
            LET values == VerifyJwtValues(handed[r].env)
            IN  /\ Cardinality(values) = 1
                /\ "false" \in values <=> req[r].noVerifyJWT \in {"true", "false"}
                /\ "true" \in values <=> req[r].noVerifyJWT = "nil"

\* a serve-all sandbox runs with VERIFY_JWT=false under an override that
\* points to false
C17_Witness ==
    \E r \in Runs :
        /\ All(r)
        /\ req[r].noVerifyJWT = "false"
        /\ containers[r].status = "running"
        /\ VerifyJwtValues(containers[r].env) = {"false"}

\* the bind mounts of a container specification at a path of the sandbox
MountsAt(spec, target) ==
    { spec.binds[i] : i \in { j \in DOMAIN spec.binds :
                                 spec.binds[j].target = target } }

\* C18: the sandbox is started with the functions directory mounted
\* read-only in either mode, with the read-write cache mount in serve-all
\* mode only, and with the read-only mount of the custom import map exactly
\* when the resolved import-map path is non-empty; a cache or run command of
\* single-function mode that carries the import-map flag pointing at
\* /home/deno/import_map.json was sent to a sandbox started with that mount.
C18_BindMounts ==
    \A r \in Runs :
        /\ handed[r] # NoContainer =>
              /\ MountsAt(handed[r], relayFuncDir) =
                     { Bind(Join(Cwd, FunctionsDir), relayFuncDir, "ro,z") }
              /\ MountsAt(handed[r], customDockerImportMapPath) =
                     IF importMapPath[r] # NoPath
                     THEN { Bind(Join(Cwd, importMapPath[r]),
                                 customDockerImportMapPath, "ro,z") }
                     ELSE {}
              /\ { b \in Range(handed[r].binds) : b.mode # "ro,z" } =
                     IF All(r) THEN { Bind(HostCachePath, DenoCacheDir, "rw,z") }
                     ELSE {}
        /\ \A c \in {cmds[r].cache, cmds[r].run} :
              customDockerImportMapPath \in FlagArgs(c) =>
                  /\ Single(r)
                  /\ \E b \in MountsAt(handed[r], customDockerImportMapPath) :
                         b.mode = "ro,z"

\* the run command of a single-function run carries the flag pointing at the
\* custom path, in a sandbox that runs with the mount
C18_Witness ==
    \E r \in Runs :
        /\ customDockerImportMapPath \in FlagArgs(cmds[r].run)
        /\ containers[r].status = "running"
        /\ MountsAt(containers[r], customDockerImportMapPath) # {}

\* C19, as stated: of two invocations on the same identifier, each with a
\* cancellation signal of its own, the watcher of one never removes a
\* container the other started.
C19_WatcherRemovesOnlyOwn ==
    \A r \in Runs : victims[r] \subseteq {r}

====
